---- MODULE Spec2Model ----
(***************************************************************************)
(* A model of cola/inotify.py: the module-level start()/stop()/            *)
(* has_inotify(), the GitNotifier watcher thread (inotify and win32        *)
(* loops), the FileSysEvent filter and the Handler debounce timer.         *)
(*                                                                         *)
(* Threads of control: the controlling (GUI) thread runs start() and       *)
(* stop(); every GitNotifier is one watcher thread; every threading.Timer  *)
(* started by Handler.handle is one timer thread.  Each action is one      *)
(* step of one of those threads; steps that touch only state private to    *)
(* their thread are merged into the step before them.                      *)
(*                                                                         *)
(* Time is counted in ticks of half a quiet interval (Timer(0.888, ...)).  *)
(* A Timer carries the ticks it still has to sleep; Tick lets time pass.   *)
(*                                                                         *)
(* The process's working directory is the worktree (the paths of git       *)
(* ls-files and of the win32 change records are resolved against it).     *)
(*                                                                         *)
(* Spec is one session (start() once), SpecMulti lets start() be called    *)
(* again, FairSpec is one session in which every runnable thread gets to   *)
(* run and time passes.                                                    *)
(***************************************************************************)
EXTENDS Naturals, Integers, Sequences, FiniteSets

\* ---------------------------------------------------------------- bounds
\* GitNotifier objects start() may create in one run of the model.
MaxStarts == 2
\* Filesystem changes the environment makes in one run of the model.
MaxEvents == 3
\* The same, in the runs where start() is called more than once.
MultiEvents == 1
\* The same, in the runs in which every thread is scheduled fairly.
FairEvents == 2
\* Capacity of a backend's queue of undelivered raw events.
MaxQueue == 2
\* Tracked files that `git ls-files` prints.
MaxTracked == 3

\* ------------------------------------------------------- program constants
\* Timer(0.888, self.broadcast): the quiet interval, in ticks.
Interval == 2
\* GitNotifier.__init__(self, timeout=333)
DefaultTimeout == 333

Threads == 1 .. MaxStarts
NoThread == 0

Platforms == {"linux", "win32", "other"}

\* Directory spellings: "lnk" is a symbolic link to "a", "gone" is a
\* directory that no longer exists, "git" is the worktree's .git directory.
Dirs == {"root", "a", "b", "lnk", "gone", "git"}
\* Directories in which the environment changes files.
EventDirs == {"root", "git"}
\* File names of raw events; "" is an event that carries no file name.
FileName == "f"
\* The entries of the root that are directories (or links to one), and the
\* one that events of the root name.
Subdirs == {"a", "b", "lnk"}
NewDir == "b"
\* The tracked files `git ls-files` may print: a file named by the spelling
\* of the directory it is in, and "sym", a symbolic link in the worktree's
\* root that points to a file in "b".
TrackedDirs == {"root", "a", "b", "lnk", "gone"}
TrackedFiles == TrackedDirs \cup {"sym"}
\* What `git ls-files` may print: every list of at most MaxTracked files.
TrackedLists == UNION { [1 .. n -> TrackedFiles] : n \in 0 .. MaxTracked }
\* The lists used in the runs where start() is called more than once.
FewTrackedLists == {<< >>, <<"a", "b">>, <<"lnk", "gone", "a">>}

VARIABLES
    platform,      \* utils.is_win32() / utils.is_linux()
    AVAILABLE,     \* module global AVAILABLE
    cfg_inotify,   \* gitcfg.instance().get('cola.inotify', True)
    _thread,       \* module global _thread: NoThread (None) or a GitNotifier
    log,           \* the messages given to Interaction.log, in order
    ctl,           \* the controlling thread: "idle", or "waiting" inside stop()
    pc,            \* per GitNotifier: where its thread is
    _running,      \* GitNotifier._running
    _timeout,      \* GitNotifier._timeout
    _wmgr,         \* GitNotifier._wmgr is set
    _dirs_seen,    \* GitNotifier._dirs_seen
    watches,       \* per GitNotifier: directory -> number of add_watch calls
    backend,       \* per GitNotifier: Notifier / win32 handle: "none", "open", "released"
    todo,          \* per GitNotifier: lines of ls_files still to register
    inq,           \* per GitNotifier: raw events queued by the backend
    _check,        \* per GitNotifier: the local `check` of run()
    batch,         \* per GitNotifier: events read and not yet processed
    _timer,        \* per Handler: Handler._timer, "None" or "Timer"
    _lock,         \* per Handler: who holds Handler._lock: "free", "watch", "timer"
    timers,        \* per Handler: the Timer threads that have not ended
    files,         \* the files that exist on disk
    nev,           \* filesystem changes made so far
    burst,         \* per Handler: the burst of handle calls in progress
    raised,        \* per Handler: cmds.do has raised inside broadcast
    stopDone,      \* stop() has returned and start() has not run a thread since
    expected,      \* per GitNotifier: the directories its ls_files output calls for
    observed,      \* per GitNotifier: its thread has read self._running as false
    fresh,         \* per Handler: handle has run since the last callback ended
    ev             \* what the last step did

vars == << platform, AVAILABLE, cfg_inotify, _thread, log, ctl, pc, _running,
           _timeout, _wmgr, _dirs_seen, watches, backend, todo, inq, _check,
           batch, _timer, _lock, timers, files, nev, burst, raised,
           stopDone, expected, observed, fresh, ev >>

envVars == << platform, AVAILABLE, cfg_inotify >>
ctlVars == << _thread, log, ctl, stopDone >>
regVars == << _wmgr, _dirs_seen, watches, todo, expected >>
loopVars == << inq, _check, batch, observed >>
hdlVars == << _timer, _lock, timers, burst, raised, fresh >>
fsVars == << files, nev >>

Tau == [op |-> "tau"]
NoBurst == [age |-> -1, fired |-> 0]

\* ------------------------------------------------------------ pure helpers

\* core.realpath(directory): the canonical spelling of a directory.
realpath(d) == IF d = "lnk" THEN "a" ELSE d

\* core.exists(directory)
dir_exists(d) == d # "gone"

\* os.path.dirname(core.realpath(filename)) for a line of ls_files: the
\* directory of the file's canonical path (for a symbolic link, the directory
\* of the file it points to).
tracked_directory(filename) ==
    IF filename = "sym" THEN "b" ELSE realpath(filename)

\* The directories a listing calls for: the canonical root and, for every
\* tracked file, the directory of its canonical path where that exists.
ExpectedRegistry(l) ==
    {realpath("root")} \cup
    { d \in Dirs : \E i \in 1 .. Len(l) :
                      d = realpath(tracked_directory(l[i])) /\ dir_exists(d) }

\* os.path.exists(os.path.join(event.path, event.name)) in process_default
path_exists(d, n) == << d, n >> \in files

\* os.path.isfile(path) in run_win32: the path exists and is no directory.
path_isfile(d, n) == path_exists(d, n) /\ n \notin Dirs

\* QThread.isRunning(): true from QThread.start() until run() has ended.
isRunning(t) == pc[t] \notin {"none", "done", "crashed"}

\* has_inotify()
has_inotify == AVAILABLE /\ _thread # NoThread /\ isRunning(_thread)

Min(a, b) == IF a < b THEN a ELSE b

\* The Timer threads of Handler t that are scheduled and have not fired.
Pending(t) == { i \in 1 .. Len(timers[t]) : timers[t][i].st = "wait" }

RemoveAt(s, i) == [ j \in 1 .. (Len(s) - 1) |-> IF j < i THEN s[j] ELSE s[j + 1] ]

\* --------------------------------------------------------------- start()

\* start() with the capability test before the flag test.
start_outcome_capfirst(flag, avail, plat) ==
    IF ~avail
    THEN IF plat = "win32"
         THEN [msgs |-> << "install_pywin32" >>, spawn |-> FALSE]
         ELSE IF plat = "linux"
         THEN [msgs |-> << "install_pyinotify" >>, spawn |-> FALSE]
         ELSE [msgs |-> << >>, spawn |-> FALSE]
    ELSE IF ~flag
    THEN [msgs |-> << "inotify_disabled_by_config" >>, spawn |-> FALSE]
    ELSE IF plat = "win32"
         THEN [msgs |-> << "file_notification_enabled" >>, spawn |-> TRUE]
         ELSE [msgs |-> << "inotify_enabled" >>, spawn |-> TRUE]

\* start() that logs the missing capability and starts the thread all the same.
start_outcome_nocap(flag, avail, plat) ==
    IF ~flag
    THEN [msgs |-> << "inotify_disabled_by_config" >>, spawn |-> FALSE]
    ELSE IF ~avail /\ plat = "win32"
    THEN [msgs |-> << "install_pywin32" >>, spawn |-> TRUE]
    ELSE IF ~avail /\ plat = "linux"
    THEN [msgs |-> << "install_pyinotify" >>, spawn |-> TRUE]
    ELSE IF ~avail
    THEN [msgs |-> << >>, spawn |-> FALSE]
    ELSE IF plat = "win32"
         THEN [msgs |-> << "file_notification_enabled" >>, spawn |-> TRUE]
         ELSE [msgs |-> << "inotify_enabled" >>, spawn |-> TRUE]

\* What start() does, from the flag, the capability and the platform:
\* the messages it logs and whether it creates and starts a GitNotifier.
start_outcome(flag, avail, plat) ==
    IF ~flag
    THEN [msgs |-> << "inotify_disabled_by_config" >>, spawn |-> FALSE]
    ELSE IF ~avail
    THEN IF plat = "win32"
         THEN [msgs |-> << "install_pywin32" >>, spawn |-> FALSE]
         ELSE IF plat = "linux"
         THEN [msgs |-> << "install_pyinotify" >>, spawn |-> FALSE]
         ELSE [msgs |-> << >>, spawn |-> FALSE]
    ELSE IF plat = "win32"
         THEN [msgs |-> << "file_notification_enabled" >>, spawn |-> TRUE]
         ELSE [msgs |-> << "inotify_enabled" >>, spawn |-> TRUE]

FreeThreads == { t \in Threads : pc[t] = "none" }

\* start(), called at most maxStarts times.
start(maxStarts) ==
    /\ ctl = "idle"
    /\ Len(log) < maxStarts
    /\ LET o == start_outcome(cfg_inotify, AVAILABLE, platform) IN
       /\ o.spawn => FreeThreads # {}
       /\ log' = log \o o.msgs
       /\ IF o.spawn
          THEN LET t == CHOOSE x \in FreeThreads : \A y \in FreeThreads : x <= y IN
               /\ _thread' = t
               /\ pc' = [pc EXCEPT ![t] = "created"]
               /\ _running' = [_running EXCEPT ![t] = TRUE]
               /\ _timeout' = [_timeout EXCEPT ![t] = DefaultTimeout]
               /\ stopDone' = FALSE
          ELSE UNCHANGED << _thread, pc, _running, _timeout, stopDone >>
       /\ ev' = [op |-> "start", logged |-> Len(o.msgs), spawned |-> o.spawn,
                 msgs |-> o.msgs]
    /\ UNCHANGED << envVars, ctl, regVars, backend, loopVars, hdlVars, fsVars >>

\* ---------------------------------------------------------------- stop()

\* GitNotifier.stop that leaves self._running alone.
GitNotifier_stop_timeout_only(stopped) == [timeout |-> 0, running |-> TRUE]

\* GitNotifier.stop(stopped): self._timeout = 0, self._running = not stopped.
GitNotifier_stop(stopped) == [timeout |-> 0, running |-> ~stopped]

\* stop(): returns at once when has_inotify() is false; else
\* GitNotifier.stop(True), then blocks in QThread.wait().
stop_call ==
    /\ ctl = "idle"
    /\ IF ~has_inotify
       THEN /\ stopDone' = TRUE
            /\ ev' = [op |-> "stop_return", waited |-> FALSE]
            /\ UNCHANGED << ctl, _running, _timeout >>
       ELSE /\ LET s == GitNotifier_stop(TRUE) IN
               /\ _timeout' = [_timeout EXCEPT ![_thread] = s.timeout]
               /\ _running' = [_running EXCEPT ![_thread] = s.running]
            /\ ctl' = "waiting"
            /\ ev' = Tau
            /\ UNCHANGED stopDone
    /\ UNCHANGED << envVars, _thread, log, pc, regVars, backend, loopVars,
                    hdlVars, fsVars >>

\* _thread.wait() returns: the thread's run() has ended.
stop_return ==
    /\ ctl = "waiting"
    /\ ~isRunning(_thread)
    /\ ctl' = "idle"
    /\ stopDone' = TRUE
    /\ ev' = [op |-> "stop_return", waited |-> TRUE]
    /\ UNCHANGED << envVars, _thread, log, pc, _running, _timeout, regVars,
                    backend, loopVars, hdlVars, fsVars >>

\* ------------------------------------------------------- _watch_directory

\* self._mask is assigned in __init__ only where utils.is_linux().
has_mask(plat) == plat = "linux"

\* _watch_directory without the `directory not in self._dirs_seen` test.
watch_directory_nodedup(wm, seen, w, plat, directory) ==
    LET d == realpath(directory) IN
    IF ~wm THEN [seen |-> seen, w |-> w, raised |-> FALSE]
    ELSE IF ~dir_exists(d) THEN [seen |-> seen, w |-> w, raised |-> FALSE]
    ELSE IF has_mask(plat)
    THEN [seen |-> seen \cup {d}, w |-> [w EXCEPT ![d] = @ + 1], raised |-> FALSE]
    ELSE [seen |-> seen, w |-> w, raised |-> TRUE]

\* _watch_directory without the core.exists test.
watch_directory_noexists(wm, seen, w, plat, directory) ==
    LET d == realpath(directory) IN
    IF ~wm THEN [seen |-> seen, w |-> w, raised |-> FALSE]
    ELSE IF d \notin seen
    THEN IF has_mask(plat)
         THEN [seen |-> seen \cup {d}, w |-> [w EXCEPT ![d] = @ + 1],
               raised |-> FALSE]
         ELSE [seen |-> seen, w |-> w, raised |-> TRUE]
    ELSE [seen |-> seen, w |-> w, raised |-> FALSE]

\* GitNotifier._watch_directory(directory) on a registry (wm, seen, w):
\* the registry after the call, and whether the call raised (self._mask is
\* read, and missing, when the directory is about to be registered).
watch_directory(wm, seen, w, plat, directory) ==
    LET d == realpath(directory) IN
    IF ~wm THEN [seen |-> seen, w |-> w, raised |-> FALSE]
    ELSE IF ~dir_exists(d) THEN [seen |-> seen, w |-> w, raised |-> FALSE]
    ELSE IF d \notin seen
    THEN IF has_mask(plat)
         THEN [seen |-> seen \cup {d}, w |-> [w EXCEPT ![d] = @ + 1],
               raised |-> FALSE]
         ELSE [seen |-> seen, w |-> w, raised |-> TRUE]
    ELSE [seen |-> seen, w |-> w, raised |-> FALSE]

\* ------------------------------------------------------ GitNotifier.run()

\* run(), inotify backend, up to the first line of ls_files: WatchManager(),
\* Notifier(...), _watch_directory(self._path), self._git.ls_files().
run_begin(t, lists) ==
    /\ pc[t] = "created"
    /\ platform # "win32"
    /\ LET r == watch_directory(TRUE, _dirs_seen[t], watches[t], platform, "root") IN
       /\ _wmgr' = [_wmgr EXCEPT ![t] = TRUE]
       /\ backend' = [backend EXCEPT ![t] = "open"]
       /\ _dirs_seen' = [_dirs_seen EXCEPT ![t] = r.seen]
       /\ watches' = [watches EXCEPT ![t] = r.w]
       /\ IF r.raised
          THEN /\ pc' = [pc EXCEPT ![t] = "crashed"]
               /\ UNCHANGED << todo, expected >>
          ELSE \E l \in lists :
               /\ todo' = [todo EXCEPT ![t] = l]
               /\ expected' = [expected EXCEPT ![t] = ExpectedRegistry(l)]
               /\ pc' = [pc EXCEPT ![t] = IF l = << >> THEN "loop" ELSE "starting"]
       /\ ev' = [op |-> "watch", t |-> t, dir |-> "root",
                 known |-> "root" \in _dirs_seen[t]]
    /\ UNCHANGED << envVars, ctlVars, _running, _timeout, loopVars, hdlVars, fsVars >>

\* One turn of `for filename in ls_files`: realpath, dirname, _watch_directory.
register_tracked(t) ==
    /\ pc[t] = "starting"
    /\ todo[t] # << >>
    /\ LET directory == tracked_directory(Head(todo[t]))
           r == watch_directory(_wmgr[t], _dirs_seen[t], watches[t], platform, directory)
       IN
       /\ _dirs_seen' = [_dirs_seen EXCEPT ![t] = r.seen]
       /\ watches' = [watches EXCEPT ![t] = r.w]
       /\ todo' = [todo EXCEPT ![t] = Tail(@)]
       /\ pc' = [pc EXCEPT ![t] = IF r.raised THEN "crashed"
                                  ELSE IF Tail(todo[t]) = << >> THEN "loop"
                                  ELSE "starting"]
       /\ ev' = [op |-> "watch", t |-> t, dir |-> directory,
                 known |-> realpath(directory) \in _dirs_seen[t]]
    /\ UNCHANGED << envVars, ctlVars, _running, _timeout, _wmgr, expected,
                    backend, loopVars, hdlVars, fsVars >>

\* run_win32() up to its loop: CreateFile, CreateEvent, Handler().
run_win32_begin(t) ==
    /\ pc[t] = "created"
    /\ platform = "win32"
    /\ backend' = [backend EXCEPT ![t] = "open"]
    /\ pc' = [pc EXCEPT ![t] = "loop"]
    /\ ev' = Tau
    /\ UNCHANGED << envVars, ctlVars, _running, _timeout, regVars, loopVars,
                    hdlVars, fsVars >>

\* What leaving the loop does to the backend: run() calls notifier.stop();
\* run_win32() returns with the directory handle and the event still open.
backend_on_exit(plat, b) == IF plat = "win32" THEN b ELSE "released"

\* The loop that goes on to the events whatever self._running says.
saw_stop_never(running) == FALSE

\* `if not self._running` after a wakeup (run) and before each change
\* record (run_win32).
saw_stop(running) == ~running

\* run(): `while self._running:` (then notifier.stop()) and, inside the
\* loop, check = notifier.check_events(...): true when events are queued,
\* false when the timeout ran out.
check_events(t) ==
    /\ pc[t] = "loop"
    /\ platform # "win32"
    /\ IF _running[t]
       THEN /\ pc' = [pc EXCEPT ![t] = "polled"]
            /\ _check' = [_check EXCEPT ![t] = inq[t] # << >>]
            /\ UNCHANGED << backend, observed >>
       ELSE /\ pc' = [pc EXCEPT ![t] = "done"]
            /\ backend' = [backend EXCEPT ![t] = backend_on_exit(platform, @)]
            /\ observed' = [observed EXCEPT ![t] = TRUE]
            /\ UNCHANGED _check
    /\ ev' = Tau
    /\ UNCHANGED << envVars, ctlVars, _running, _timeout, regVars, inq,
                    batch, hdlVars, fsVars >>

\* `if not self._running: break` (then notifier.stop()), else
\* `if check: notifier.read_events()` and on to process_events().
after_check(t) ==
    /\ pc[t] = "polled"
    /\ IF saw_stop(_running[t])
       THEN /\ pc' = [pc EXCEPT ![t] = "done"]
            /\ backend' = [backend EXCEPT ![t] = backend_on_exit(platform, @)]
            /\ observed' = [observed EXCEPT ![t] = TRUE]
            /\ UNCHANGED << inq, batch >>
       ELSE IF _check[t]
       THEN /\ batch' = [batch EXCEPT ![t] = inq[t]]
            /\ inq' = [inq EXCEPT ![t] = << >>]
            /\ pc' = [pc EXCEPT ![t] = "process"]
            /\ UNCHANGED << backend, observed >>
       ELSE /\ pc' = [pc EXCEPT ![t] = "loop"]
            /\ UNCHANGED << backend, inq, batch, observed >>
    /\ ev' = Tau
    /\ UNCHANGED << envVars, ctlVars, _running, _timeout, regVars, _check,
                    hdlVars, fsVars >>

\* process_default without the os.path.exists test.
process_default_forwards_noexists(e) == e.name # ""

\* FileSysEvent.process_default(event): whether the event is passed on to
\* Handler.handle.
process_default_forwards(e) ==
    IF e.name = "" THEN FALSE ELSE path_exists(e.dir, e.name)

\* notifier.process_events(): process_default on the next event read.
process_default(t) ==
    /\ pc[t] = "process"
    /\ platform # "win32"
    /\ batch[t] # << >>
    /\ LET e == Head(batch[t])
           fwd == process_default_forwards(e)
       IN
       /\ batch' = [batch EXCEPT ![t] = Tail(@)]
       /\ pc' = [pc EXCEPT ![t] = IF fwd THEN "h_enter" ELSE "process"]
       /\ ev' = [op |-> "event", t |-> t, name |-> e.name,
                 exists |-> path_exists(e.dir, e.name), forwarded |-> fwd]
    /\ UNCHANGED << envVars, ctlVars, _running, _timeout, regVars, backend, inq,
                    _check, observed, hdlVars, fsVars >>

\* All events read have been processed: back to the loop test.
process_done(t) ==
    /\ pc[t] = "process"
    /\ batch[t] = << >>
    /\ pc' = [pc EXCEPT ![t] = "loop"]
    /\ ev' = Tau
    /\ UNCHANGED << envVars, ctlVars, _running, _timeout, regVars, backend,
                    loopVars, hdlVars, fsVars >>

\* run_win32(): `while self._running:` and, inside the loop,
\* ReadDirectoryChangesW, WaitForSingleObject(timeout), GetOverlappedResult:
\* `continue` on a timeout or on no bytes, else the change records are
\* decoded.
wait_win32(t) ==
    /\ pc[t] = "loop"
    /\ platform = "win32"
    /\ IF ~_running[t]
       THEN /\ pc' = [pc EXCEPT ![t] = "done"]
            /\ backend' = [backend EXCEPT ![t] = backend_on_exit(platform, @)]
            /\ observed' = [observed EXCEPT ![t] = TRUE]
            /\ UNCHANGED << inq, batch >>
       ELSE IF inq[t] = << >>
       THEN UNCHANGED << pc, backend, inq, batch, observed >>
       ELSE \E nbytes \in {0, 1} :
            /\ inq' = [inq EXCEPT ![t] = << >>]
            /\ UNCHANGED << backend, observed >>
            /\ IF nbytes = 0
               THEN UNCHANGED << pc, batch >>
               ELSE /\ pc' = [pc EXCEPT ![t] = "process"]
                    /\ batch' = [batch EXCEPT ![t] = inq[t]]
    /\ ev' = Tau
    /\ UNCHANGED << envVars, ctlVars, _running, _timeout, regVars,
                    _check, hdlVars, fsVars >>

\* run_win32(): whether a change record's path is passed on to
\* Handler.handle: not under .git, and os.path.isfile(path).
win32_forwards(e) ==
    e.dir # "git" /\ path_isfile(e.dir, e.name)

\* One turn of `for action, path in results` of run_win32().
process_win32(t) ==
    /\ pc[t] = "process"
    /\ platform = "win32"
    /\ batch[t] # << >>
    /\ IF saw_stop(_running[t])
       THEN /\ batch' = [batch EXCEPT ![t] = << >>]
            /\ pc' = [pc EXCEPT ![t] = "loop"]
            /\ observed' = [observed EXCEPT ![t] = TRUE]
            /\ ev' = Tau
       ELSE LET e == Head(batch[t])
                fwd == win32_forwards(e)
            IN
            /\ UNCHANGED observed
            /\ batch' = [batch EXCEPT ![t] = Tail(@)]
            /\ pc' = [pc EXCEPT ![t] = IF fwd THEN "h_enter" ELSE "process"]
            /\ ev' = [op |-> "event", t |-> t, name |-> e.name,
                      exists |-> path_exists(e.dir, e.name), forwarded |-> fwd]
    /\ UNCHANGED << envVars, ctlVars, _running, _timeout, regVars, backend, inq,
                    _check, hdlVars, fsVars >>

\* The poll of the backend fails inside the loop: check_events or
\* read_events (run), ReadDirectoryChangesW, WaitForSingleObject or
\* GetOverlappedResult (run_win32) raises.  Nothing catches the exception:
\* it leaves run(), past notifier.stop(), and the thread ends.
poll_raises(t) ==
    /\ pc[t] = "loop"
    /\ _running[t]
    /\ pc' = [pc EXCEPT ![t] = "crashed"]
    /\ ev' = [op |-> "poll_raised", t |-> t]
    /\ UNCHANGED << envVars, ctlVars, _running, _timeout, regVars, backend,
                    loopVars, hdlVars, fsVars >>

\* ----------------------------------------------------------------- Handler

\* Timer(0.888, self.broadcast) followed by start(): a Timer thread that
\* sleeps the quiet interval.
NewTimer == [rem |-> Interval, st |-> "wait"]

\* Handler.handle as a retriggerable timer: a call made while a Timer is
\* scheduled starts its sleep again.
Handler_handle_retrigger(tm, tms) ==
    IF tm = "None"
    THEN [timer |-> "Timer", timers |-> Append(tms, NewTimer)]
    ELSE [timer |-> tm,
          timers |-> [i \in 1 .. Len(tms) |->
                        IF tms[i].st = "wait" THEN NewTimer ELSE tms[i]]]

\* Handler.handle that marks a batch pending and starts no Timer.
Handler_handle_nostart(tm, tms) == [timer |-> "Timer", timers |-> tms]

\* Handler.handle that starts a Timer at every call.
Handler_handle_always(tm, tms) ==
    [timer |-> "Timer", timers |-> Append(tms, NewTimer)]

\* The body of Handler.handle, under the lock: a Timer is created and
\* started only when self._timer is None.
Handler_handle(tm, tms) ==
    IF tm = "None"
    THEN [timer |-> "Timer", timers |-> Append(tms, NewTimer)]
    ELSE [timer |-> tm, timers |-> tms]

\* A lock that never blocks.
lock_free_ignored(l) == TRUE

\* Whether `with self._lock` may be entered.
lock_free(l) == l = "free"

\* Handler.handle: `with self._lock` is entered.
handle_acquire(t) ==
    /\ pc[t] = "h_enter"
    /\ lock_free(_lock[t])
    /\ _lock' = [_lock EXCEPT ![t] = "watch"]
    /\ pc' = [pc EXCEPT ![t] = "h_locked"]
    /\ ev' = Tau
    /\ UNCHANGED << envVars, ctlVars, _running, _timeout, regVars, backend,
                    loopVars, _timer, timers, burst, raised, fresh, fsVars >>

\* Handler.handle: the body, and the lock is released.
handle_body(t) ==
    /\ pc[t] = "h_locked"
    /\ LET r == Handler_handle(_timer[t], timers[t]) IN
       /\ _timer' = [_timer EXCEPT ![t] = r.timer]
       /\ timers' = [timers EXCEPT ![t] = r.timers]
    /\ _lock' = [_lock EXCEPT ![t] = "free"]
    /\ pc' = [pc EXCEPT ![t] = "process"]
    /\ burst' = [burst EXCEPT ![t] =
                   IF timers[t] = << >> THEN [age |-> 0, fired |-> 0]
                   ELSE IF @.age >= 0 /\ @.age < Interval THEN @
                   ELSE NoBurst]
    /\ fresh' = [fresh EXCEPT ![t] = TRUE]
    /\ ev' = [op |-> "handle", t |-> t, marked |-> _timer[t] # "None",
              pending |-> Pending(t) # {}, live |-> timers[t] # << >>]
    /\ UNCHANGED << envVars, ctlVars, _running, _timeout, regVars, backend,
                    loopVars, raised, fsVars >>

\* A Timer thread wakes up once it has slept its interval and calls
\* Handler.broadcast.
timer_expire(t) == \E i \in Pending(t) :
    /\ timers[t][i].rem = 0
    /\ timers' = [timers EXCEPT ![t][i].st = "fired"]
    /\ ev' = Tau
    /\ UNCHANGED << envVars, ctlVars, pc, _running, _timeout, regVars, backend,
                    loopVars, _timer, _lock, burst, raised, fresh, fsVars >>

\* Handler.broadcast: `with self._lock` is entered.
broadcast_acquire(t) == \E i \in 1 .. Len(timers[t]) :
    /\ timers[t][i].st = "fired"
    /\ lock_free(_lock[t])
    /\ _lock' = [_lock EXCEPT ![t] = "timer"]
    /\ timers' = [timers EXCEPT ![t][i].st = "locked"]
    /\ ev' = Tau
    /\ UNCHANGED << envVars, ctlVars, pc, _running, _timeout, regVars, backend,
                    loopVars, _timer, burst, raised, fresh, fsVars >>

\* Handler.broadcast: cmds.do(cmds.UpdateFileStatus) is called; it runs on
\* (the Timer thread is "called" until it has returned), or it raises and
\* the exception leaves the `with` (the lock is released, the Timer thread
\* ends, self._timer is not assigned).
broadcast_callback(t) == \E i \in 1 .. Len(timers[t]) :
    /\ timers[t][i].st = "locked"
    /\ \E ok \in BOOLEAN :
       /\ IF ok
          THEN /\ timers' = [timers EXCEPT ![t][i].st = "called"]
               /\ UNCHANGED << _lock, fresh >>
          ELSE /\ timers' = [timers EXCEPT ![t] = RemoveAt(@, i)]
               /\ _lock' = [_lock EXCEPT ![t] = "free"]
               /\ fresh' = [fresh EXCEPT ![t] = FALSE]
       /\ raised' = [raised EXCEPT ![t] = @ \/ ~ok]
       /\ ev' = [op |-> "callback", t |-> t, ok |-> ok, age |-> burst[t].age,
                 marked |-> _timer[t] # "None", afterStop |-> stopDone,
                 fresh |-> fresh[t]]
    /\ burst' = [burst EXCEPT ![t] =
                   IF @.age >= 0 THEN [@ EXCEPT !.fired = Min(@ + 1, 2)] ELSE @]
    /\ UNCHANGED << envVars, ctlVars, pc, _running, _timeout, regVars, backend,
                    loopVars, _timer, fsVars >>

\* Handler.broadcast: cmds.do has returned; self._timer = None, and the lock
\* is released.
broadcast_clear(t) == \E i \in 1 .. Len(timers[t]) :
    /\ timers[t][i].st = "called"
    /\ _timer' = [_timer EXCEPT ![t] = "None"]
    /\ _lock' = [_lock EXCEPT ![t] = "free"]
    /\ timers' = [timers EXCEPT ![t] = RemoveAt(@, i)]
    /\ fresh' = [fresh EXCEPT ![t] = FALSE]
    /\ ev' = Tau
    /\ UNCHANGED << envVars, ctlVars, pc, _running, _timeout, regVars, backend,
                    loopVars, burst, raised, fsVars >>

\* ------------------------------------------------------------- environment

\* Half a quiet interval passes: sleeping Timers get closer to waking up.
Tick ==
    /\ \E t \in Threads :
          \/ \E i \in Pending(t) : timers[t][i].rem > 0
          \/ (burst[t].age >= 0 /\ burst[t].age < Interval)
    /\ timers' = [t \in Threads |->
                    [i \in 1 .. Len(timers[t]) |->
                       IF timers[t][i].st = "wait" /\ timers[t][i].rem > 0
                       THEN [timers[t][i] EXCEPT !.rem = @ - 1]
                       ELSE timers[t][i]]]
    /\ burst' = [t \in Threads |->
                   IF burst[t].age >= 0
                   THEN [burst[t] EXCEPT !.age = Min(@ + 1, Interval)]
                   ELSE burst[t]]
    /\ ev' = Tau
    /\ UNCHANGED << envVars, ctlVars, pc, _running, _timeout, regVars, backend,
                    loopVars, _timer, _lock, raised, fresh, fsVars >>

\* Whether the backend of GitNotifier t reports changes in directory d:
\* inotify reports the directories given to add_watch, the win32 handle
\* reports the whole tree below the worktree.
Watching(t, d) ==
    /\ isRunning(t)
    /\ backend[t] = "open"
    /\ IF platform = "win32" THEN TRUE ELSE watches[t][d] > 0

\* The backends queue a raw event, where they watch and have room.
Deliver(e) ==
    inq' = [t \in Threads |->
              IF Watching(t, e.dir) /\ Len(inq[t]) < MaxQueue
              THEN Append(inq[t], e)
              ELSE inq[t]]

\* A file is written (created or modified).
fs_write(d, maxEvents) ==
    /\ nev < maxEvents
    /\ nev' = nev + 1
    /\ files' = files \cup {<< d, FileName >>}
    /\ Deliver([dir |-> d, name |-> FileName])
    /\ ev' = Tau
    /\ UNCHANGED << envVars, ctlVars, pc, _running, _timeout, regVars, backend,
                    _check, batch, observed, hdlVars >>

\* A file is deleted.
fs_delete(d, maxEvents) ==
    /\ nev < maxEvents
    /\ << d, FileName >> \in files
    /\ nev' = nev + 1
    /\ files' = files \ {<< d, FileName >>}
    /\ Deliver([dir |-> d, name |-> FileName])
    /\ ev' = Tau
    /\ UNCHANGED << envVars, ctlVars, pc, _running, _timeout, regVars, backend,
                    _check, batch, observed, hdlVars >>

\* A watched directory itself changes: an event that carries no file name.
fs_dir_event(d, maxEvents) ==
    /\ nev < maxEvents
    /\ nev' = nev + 1
    /\ Deliver([dir |-> d, name |-> ""])
    /\ ev' = Tau
    /\ UNCHANGED << envVars, ctlVars, pc, _running, _timeout, regVars, backend,
                    _check, batch, observed, hdlVars, files >>

\* A subdirectory of the worktree's root shows up in an event of the root
\* (it is moved in, or its attributes change).
fs_subdir_event(maxEvents) ==
    /\ nev < maxEvents
    /\ nev' = nev + 1
    /\ Deliver([dir |-> "root", name |-> NewDir])
    /\ ev' = Tau
    /\ UNCHANGED << envVars, ctlVars, pc, _running, _timeout, regVars, backend,
                    _check, batch, observed, hdlVars, files >>

\* ------------------------------------------------------------ specification

Init ==
    /\ platform \in Platforms
    /\ AVAILABLE \in BOOLEAN
    /\ cfg_inotify \in BOOLEAN
    /\ _thread = NoThread
    /\ log = << >>
    /\ ctl = "idle"
    /\ pc = [t \in Threads |-> "none"]
    /\ _running = [t \in Threads |-> FALSE]
    /\ _timeout = [t \in Threads |-> 0]
    /\ _wmgr = [t \in Threads |-> FALSE]
    /\ _dirs_seen = [t \in Threads |-> {}]
    /\ watches = [t \in Threads |-> [d \in Dirs |-> 0]]
    /\ backend = [t \in Threads |-> "none"]
    /\ todo = [t \in Threads |-> << >>]
    /\ inq = [t \in Threads |-> << >>]
    /\ _check = [t \in Threads |-> FALSE]
    /\ batch = [t \in Threads |-> << >>]
    /\ _timer = [t \in Threads |-> "None"]
    /\ _lock = [t \in Threads |-> "free"]
    /\ timers = [t \in Threads |-> << >>]
    /\ files = {<< "root", FileName >>} \cup { << "root", d >> : d \in Subdirs }
    /\ nev = 0
    /\ burst = [t \in Threads |-> NoBurst]
    /\ raised = [t \in Threads |-> FALSE]
    /\ stopDone = FALSE
    /\ expected = [t \in Threads |-> {}]
    /\ observed = [t \in Threads |-> FALSE]
    /\ fresh = [t \in Threads |-> FALSE]
    /\ ev = Tau

\* The steps of a run in which start() is called at most maxStarts times,
\* the environment changes the filesystem at most maxEvents times and
\* `git ls-files` prints one of lists.
NextB(maxStarts, maxEvents, lists) ==
    \/ start(maxStarts)
    \/ stop_call
    \/ stop_return
    \/ Tick
    \/ fs_subdir_event(maxEvents)
    \/ \E d \in EventDirs :
          \/ fs_write(d, maxEvents)
          \/ fs_delete(d, maxEvents)
          \/ fs_dir_event(d, maxEvents)
    \/ \E t \in Threads :
          \/ run_begin(t, lists)
          \/ register_tracked(t)
          \/ run_win32_begin(t)
          \/ check_events(t)
          \/ after_check(t)
          \/ process_default(t)
          \/ process_win32(t)
          \/ process_done(t)
          \/ wait_win32(t)
          \/ poll_raises(t)
          \/ handle_acquire(t)
          \/ handle_body(t)
          \/ timer_expire(t)
          \/ broadcast_acquire(t)
          \/ broadcast_callback(t)
          \/ broadcast_clear(t)

\* One session: start() is called once.
Next == NextB(1, MaxEvents, TrackedLists)

Spec == Init /\ [][Next]_vars

\* start() may be called again, with or without a stop() in between.
NextMulti == NextB(MaxStarts, MultiEvents, FewTrackedLists)

SpecMulti == Init /\ [][NextMulti]_vars

\* The steps of the watcher thread of GitNotifier t, but for a failing poll.
WatcherStep(t) ==
    \/ run_begin(t, FewTrackedLists)
    \/ register_tracked(t)
    \/ run_win32_begin(t)
    \/ check_events(t)
    \/ after_check(t)
    \/ process_default(t)
    \/ process_win32(t)
    \/ process_done(t)
    \/ wait_win32(t)
    \/ handle_acquire(t)
    \/ handle_body(t)

\* The steps of the Timer threads of the Handler of GitNotifier t.
TimerStep(t) ==
    \/ timer_expire(t)
    \/ broadcast_acquire(t)
    \/ broadcast_callback(t)
    \/ broadcast_clear(t)

NextFair == NextB(1, FairEvents, FewTrackedLists)

\* One session in which every thread that can take a step eventually takes
\* one (the operating system schedules every runnable thread, a poll returns
\* within its timeout, cmds.do comes to an end), time passes, and wait()
\* returns once the thread has ended.
FairSpec ==
    /\ Init
    /\ [][NextFair]_vars
    /\ \A t \in Threads : WF_vars(WatcherStep(t)) /\ WF_vars(TimerStep(t))
    /\ WF_vars(Tick)
    /\ WF_vars(stop_return)

\* ------------------------------------------------------------------ claims

\* C1: starting with no batch pending (no Timer thread of the Handler is
\* alive), the handle calls of a burst (all less than one quiet interval
\* after the first) get exactly one callback invocation, no sooner than one
\* quiet interval after the first call: at most one callback is invoked for
\* the burst, none before the interval is over, and until it is invoked a
\* Timer that will invoke it is alive.
C1_OneBroadcastPerBurst ==
    \A t \in Threads :
        burst[t].age >= 0 =>
            /\ burst[t].fired <= 1
            /\ (burst[t].fired = 0 => timers[t] # << >>)
            /\ ((ev.op = "callback" /\ ev.t = t) => ev.age >= Interval)

\* A handle call made while a Timer thread of the Handler is alive changes
\* neither the Timers nor self._timer.
C2_NoOp ==
    \A t \in Threads :
        (pc[t] = "h_locked" /\ pc'[t] # "h_locked" /\ timers[t] # << >>)
            => (timers'[t] = timers[t] /\ _timer'[t] = _timer[t])

\* A scheduled Timer wakes up one quiet interval after the first handle call
\* of its burst, however many calls followed.
C2_DeadlineKept ==
    \A t \in Threads :
        (burst[t].age >= 0 /\ burst[t].fired = 0) =>
            \A i \in Pending(t) : timers[t][i].rem = Interval - burst[t].age

\* C2: a handle call made while a batch is pending is a no-op: it changes
\* neither the scheduled Timer nor self._timer, and the Timer still wakes up
\* one quiet interval after the first call of the burst (calls at 0 and at
\* half an interval: the Timer wakes up at one interval).
C2_HandleWhilePendingIsNoOp == [][C2_NoOp]_vars /\ []C2_DeadlineKept

\* A second handle call arrived half a quiet interval after the first and
\* the Timer still has half a quiet interval to sleep.
C2_Witness ==
    /\ ev.op = "handle"
    /\ ev.pending
    /\ burst[ev.t].age = 1
    /\ \E i \in Pending(ev.t) : timers[ev.t][i].rem = 1

\* C3: once stop() has returned, the callback is not invoked again.
C3_NoBroadcastAfterStop == ev.op = "callback" => ~ev.afterStop

\* C4: after the callback has raised inside broadcast, a handle call made
\* when no Timer thread is alive still schedules a Timer.
C4_FailureDoesNotBlock ==
    \A t \in Threads :
        (ev.op = "handle" /\ ev.t = t /\ raised[t] /\ ~ev.live)
            => timers[t] # << >>

\* C5: a Handler has at most one scheduled Timer (indeed at most one Timer
\* thread alive), and handle and broadcast are never both inside
\* `with self._lock`.
C5_OnePendingAndMutex ==
    \A t \in Threads :
        /\ Cardinality(Pending(t)) <= 1
        /\ Len(timers[t]) <= 1
        /\ ~ (/\ pc[t] = "h_locked"
              /\ \E i \in 1 .. Len(timers[t]) : timers[t][i].st \in {"locked", "called"})
        /\ (_lock[t] = "watch") = (pc[t] = "h_locked")
        /\ (_lock[t] = "timer") =
              (\E i \in 1 .. Len(timers[t]) : timers[t][i].st \in {"locked", "called"})

\* handle is blocked on the lock while broadcast holds it.
C5_Witness ==
    \E t \in Threads :
        /\ pc[t] = "h_enter"
        /\ \E i \in 1 .. Len(timers[t]) : timers[t][i].st \in {"locked", "called"}

\* C6: when a stop() that found a watcher thread running returns (here:
\* after the thread it cancelled has left its loop), no watcher thread is
\* running any more and has_inotify() is false.
C6_StopWaitsForWatcher ==
    (ev.op = "stop_return" /\ ev.waited /\ pc[_thread] = "done") =>
        (~has_inotify /\ \A t \in Threads : ~isRunning(t))

\* A step that enters Handler.handle processes a raw event that has a file
\* name and whose path exists.
C7_Forwarded ==
    \A t \in Threads :
        (pc[t] # "h_enter" /\ pc'[t] = "h_enter") =>
            /\ batch[t] # << >>
            /\ Head(batch[t]).name # ""
            /\ << Head(batch[t]).dir, Head(batch[t]).name >> \in files

\* C7: a raw event with an empty file name, or whose path does not exist
\* when it is processed, never leads to a call of Handler.handle, on either
\* backend.
C7_OnlyExistingNamedFilesReachHandle == [][C7_Forwarded]_vars

\* An event whose path no longer exists was processed and dropped.
C7_Witness == ev.op = "event" /\ ev.name # "" /\ ~ev.exists /\ ~ev.forwarded

\* Every directory is given to add_watch at most once, and the registry
\* holds exactly the directories given to add_watch, all canonical and
\* existing.
C8_Registry ==
    \A t \in Threads : \A d \in Dirs :
        /\ watches[t][d] <= 1
        /\ (watches[t][d] = 1) = (d \in _dirs_seen[t])
        /\ d \in _dirs_seen[t] => (realpath(d) = d /\ dir_exists(d))

\* A _watch_directory call for a directory already seen, or that does not
\* exist, changes neither the registry nor the backend's watches.
C8_RepeatedAdd ==
    \A t \in Threads :
        (/\ ev'.op = "watch"
         /\ ev'.t = t
         /\ \/ realpath(ev'.dir) \in _dirs_seen[t]
            \/ ~dir_exists(realpath(ev'.dir)))
            => (watches'[t] = watches[t] /\ _dirs_seen'[t] = _dirs_seen[t])

\* C8: over any sequence of _watch_directory calls every canonical directory
\* is given to add_watch at most once; a repeated add, or an add of a
\* directory that does not exist, registers nothing and leaves the registry
\* unchanged.
C8_RegistryIdempotent == []C8_Registry /\ [][C8_RepeatedAdd]_vars

\* _watch_directory was called for a directory already in the registry.
C8_Witness == ev.op = "watch" /\ ev.known /\ watches[ev.t][realpath(ev.dir)] = 1

C10_FlagCheckedFirst ==
    (ev.op = "start" /\ ~cfg_inotify) =>
        /\ ev.msgs = << "inotify_disabled_by_config" >>
        /\ log # << >> /\ log[Len(log)] = "inotify_disabled_by_config"
        /\ ~ev.spawned
        /\ _thread = NoThread
        /\ \A t \in Threads : pc[t] = "none" /\ backend[t] = "none"

\* start() ran with the flag off and no capability either.
C10_Witness == ev.op = "start" /\ ~cfg_inotify /\ ~AVAILABLE /\ Len(log) = 1

C12_NoNewPoll ==
    \A t \in Threads :
        (pc[t] = "loop" /\ ~_running[t]) => pc'[t] \in {"loop", "done"}

\* C12: after GitNotifier.stop(True), whatever the thread is doing (not yet
\* in run(), Starting, in the poll, processing events), it begins no new
\* poll and eventually ends, so stop() eventually returns.
C12_StopIsObserved ==
    /\ [][C12_NoNewPoll]_vars
    /\ \A t \in Threads :
          (pc[t] # "none" /\ ~_running[t]) ~> ~isRunning(t)
    /\ (ctl = "waiting") ~> (ctl = "idle")

\* stop() is waiting for a thread that is in the middle of a batch of events.
C12_Witness ==
    /\ ctl = "waiting"
    /\ pc[_thread] = "process"
    /\ batch[_thread] # << >>

\* C13: at most one watcher thread is running at any time, and every running
\* watcher thread is the one held by _thread, which stop() will cancel.
C13_OneReachableWatcher ==
    /\ Cardinality({ t \in Threads : isRunning(t) }) <= 1
    /\ \A t \in Threads : isRunning(t) => t = _thread

\* C14: when broadcast invokes the callback, the pending flag has been
\* cleared: self._timer is None.
C14_ClearedBeforeCallback == ev.op = "callback" => ~ev.marked

\* C15: when the poll of the backend raises inside the loop, the backend
\* handle has been released when the thread ends, and no new session starts.
C15_PollFailureReleasesBackend ==
    ev.op = "poll_raised" =>
        /\ pc[ev.t] = "crashed"
        /\ backend[ev.t] = "released"
        /\ \A t \in Threads : t # ev.t => ~isRunning(t)

\* C16: a watcher thread that has left its loop because of stop() has
\* released what its backend had opened, on both backends.
C16_ReleasedOnNormalStop ==
    \A t \in Threads : pc[t] = "done" => backend[t] = "released"

\* The events of a wakeup are read (run) or forwarded (run_win32) only by a
\* step that has just found self._running set, and a thread that has found
\* it cleared forwards no event any more.
C17_CheckedBeforeEvents ==
    \A t \in Threads :
        /\ (pc[t] = "polled" /\ pc'[t] = "process") => _running[t]
        /\ (platform = "win32" /\ pc[t] = "process" /\ pc'[t] = "h_enter")
              => _running[t]
        /\ observed[t] => ~(pc[t] # "h_enter" /\ pc'[t] = "h_enter")

\* C17: on each wakeup of the loop the stop flag is checked before any event
\* is handled, and once a wakeup has seen the stop request no raw event of
\* that wakeup or of a later one reaches Handler.handle.
C17_StopCheckedBeforeEvents == [][C17_CheckedBeforeEvents]_vars

\* A wakeup that had events to read saw the stop request and the thread
\* ended with those events unread.
C17_Witness ==
    \E t \in Threads :
        /\ observed[t]
        /\ pc[t] = "done"
        /\ platform = "linux"
        /\ _check[t]
        /\ inq[t] # << >>

\* C18: on the inotify backend, a directory that an event names after
\* Starting is in the registry once the event has been processed.
C18_NewDirectoryRegistered ==
    (platform = "linux" /\ ev.op = "event" /\ ev.name = NewDir /\ ev.exists)
        => NewDir \in _dirs_seen[ev.t]

\* C19: no change is lost.  Every handle call, be it made while a Timer is
\* scheduled or while broadcast holds the lock and runs the callback, is
\* followed by a callback invocation that begins after the call was made,
\* unless the callback has raised.
C19_NoChangeLost ==
    \A t \in Threads :
        /\ (pc[t] = "h_enter") ~> ((ev.op = "callback" /\ ev.t = t) \/ raised[t])
        /\ (ev.op = "handle" /\ ev.t = t)
              ~> ((ev.op = "callback" /\ ev.t = t) \/ raised[t])

\* handle is called while broadcast is inside the callback, and no callback
\* has raised.
C19_Witness ==
    \E t \in Threads :
        /\ pc[t] = "h_enter"
        /\ ~raised[t]
        /\ \E i \in 1 .. Len(timers[t]) : timers[t][i].st = "called"

\* C20: every callback invocation comes after a handle call that ran after
\* the previous invocation ended (or after the Handler was created), so
\* there are never more invocations than handle calls.
C20_NoSpuriousBroadcast == ev.op = "callback" => ev.fresh

\* The callback is invoked for a handle call that found self._timer None.
C20_Witness == ev.op = "callback" /\ ev.fresh /\ ev.ok /\ ev.age = Interval

====
